---------------------------- MODULE Spec2Model ----------------------------
(***************************************************************************)
(* Model of the markup engine of adventure_wheel.py.                       *)
(*                                                                         *)
(* A Python str is a sequence of one-character strings.  The functions of  *)
(* the module are pure, so each is an operator computed the way the code   *)
(* computes it; a specification draws the arguments in Init and its        *)
(* actions apply the functions.                                            *)
(***************************************************************************)
EXTENDS Integers, Sequences, FiniteSets, TLC

VARIABLES
    pc,             \* "start", or the name of the function that has returned
    string,         \* argument `string` of the text functions
    width,          \* argument `width` of split_into_lines
    multiplier,     \* argument `multiplier` of replace_speed_markers
    raised,         \* whether the call ended in an uncaught exception
    blocks,         \* return value of split_markers
    wrapped,        \* return value of split_into_lines
    replaced,       \* return value of replace_speed_markers
    lines,          \* argument `lines` of the line-list functions
    chars,          \* argument `chars` of format_story_text
    formatted,      \* return value of format_story_text
    full_options,   \* return value of get_link_options
    options,        \* argument `options` of get_decision_text
    visited_links,  \* argument `visited_links` of get_decision_text
    text,           \* return value of get_decision_text
    characters,     \* return value of get_characters
    words_left,     \* local `words` of split_into_lines: the words not yet placed
    last_size,      \* local `size` of split_into_lines: the counted length of the last line
    directory,      \* argument `directory` of load_story
    files,          \* local `files` of load_story: what get_file_list finds
    next_story,     \* local `next_story` of load_story
    text_left,      \* lines of the current story that get_link_options has yet to print
    entered,        \* what input() returned last
    result          \* return value of load_story, "" before it returns

vars == << pc, string, width, multiplier, raised, blocks, wrapped, replaced,
           lines, chars, formatted, full_options, options, visited_links,
           text, characters, words_left, last_size, directory, files,
           next_story, text_left, entered, result >>

-----------------------------------------------------------------------------
(* Bounds of the model.                                                    *)

\* longest text, in pieces of MarkerPieces
MaxPieces == 5
\* largest width handed to split_into_lines
MaxWidth == 3
\* longest text, in pieces of SpeedPieces
MaxSpeedPieces == 4
\* longest list of story lines handed to format_story_text
MaxLines == 3
\* longest line handed to get_link_options, in pieces of LinkPieces
MaxLinkPieces == 4
\* longest list of options handed to get_decision_text
MaxOptions == 3
\* most fields of a line handed to get_characters
MaxFields == 5
\* longest text wrapped step by step, in pieces of WrapPieces
MaxWrapPieces == 5
\* longest text (in pieces) and longest list of the calls with absent arguments
MaxAbsent == 2

\* longest story file, in lines
MaxStoryLines == 2

-----------------------------------------------------------------------------
(* Python values and str methods.                                          *)

\* None: a value different from every str and every list of this model
None == << "<None>" >>

OPEN == << "{", "{" >>
CLOSE == << "}", "}" >>

\* s[a:b] for 0 <= a and 0 <= b
Slice(s, a, b) ==
    LET hi == IF b > Len(s) THEN Len(s) ELSE b
    IN  IF a >= hi THEN << >> ELSE SubSeq(s, a + 1, hi)

\* s[-n:] for n > 0
LastN(s, n) == IF n >= Len(s) THEN s ELSE SubSeq(s, Len(s) - n + 1, Len(s))

\* s[:-n] for n > 0
ButLastN(s, n) == IF n >= Len(s) THEN << >> ELSE SubSeq(s, 1, Len(s) - n)

\* s.startswith(p)
startswith(s, p) == Len(s) >= Len(p) /\ SubSeq(s, 1, Len(p)) = p

\* s.endswith(p)
endswith(s, p) ==
    Len(s) >= Len(p) /\ SubSeq(s, Len(s) - Len(p) + 1, Len(s)) = p

\* s.find(p): the lowest 0-based index at which p occurs in s, -1 if none
find(s, p) ==
    LET hits == { i \in 0..(Len(s) - Len(p)) : SubSeq(s, i + 1, i + Len(p)) = p }
    IN  IF hits = {} THEN -1
        ELSE CHOOSE i \in hits : \A j \in hits : i <= j

\* the concatenation of a list of str
RECURSIVE Concat(_)
Concat(ss) == IF ss = << >> THEN << >> ELSE Head(ss) \o Concat(Tail(ss))

\* del l[i] (0-based)
DelAt(l, i) == SubSeq(l, 1, i) \o SubSeq(l, i + 2, Len(l))

-----------------------------------------------------------------------------
(* split_markers                                                           *)

\* start of the first marker of `left`, len(left) if it holds none
MarkerStart(left) ==
    LET start == find(left, OPEN)
    IN  IF start = -1 THEN Len(left) ELSE start

\* end of the marker block at the head of `left`
MarkerEnd(left) ==
    LET end == find(left, CLOSE)
    IN  IF end = -1 THEN Len(left) ELSE end + 2

Rest_Skip(left, n) == Slice(left, n + 1, Len(left))

\* left = left[n:]
Rest(left, n) == Slice(left, n, Len(left))

\* the while loop of split_markers
RECURSIVE SplitLoop(_, _)
SplitLoop(bl, left) ==
    IF Len(left) = 0 THEN bl
    ELSE
        LET start == MarkerStart(left)
            bl1 == IF start > 0 THEN Append(bl, Slice(left, 0, start)) ELSE bl
            left1 == IF start > 0 THEN Rest(left, start) ELSE left
            end == MarkerEnd(left1)
        IN  SplitLoop(Append(bl1, Slice(left1, 0, end)), Rest(left1, end))

RemoveEmpty_Keep(bl, i, size) == [raised |-> FALSE, blocks |-> bl]

\* the loop that removes the empty entries: i runs over range(0, size) whatever
\* the body does to it, and blocks[i] raises IndexError past the end
RECURSIVE RemoveEmpty(_, _, _)
RemoveEmpty(bl, i, size) ==
    IF i >= size THEN [raised |-> FALSE, blocks |-> bl]
    ELSE IF i >= Len(bl) THEN [raised |-> TRUE, blocks |-> bl]
    ELSE IF bl[i + 1] = << >> THEN RemoveEmpty(DelAt(bl, i), i + 1, size)
    ELSE RemoveEmpty(bl, i + 1, size)

\* the call split_markers(s): whether it raised, and what it returned
split_markers_call(s) ==
    IF s = None THEN [raised |-> FALSE, blocks |-> << >>]
    ELSE LET bl == SplitLoop(<< >>, s)
         IN  RemoveEmpty(bl, 0, Len(bl))

split_markers(s) == split_markers_call(s).blocks
-----------------------------------------------------------------------------
(* split_into_lines                                                        *)

\* s.split(sep) for a one-character sep: the sections between the separators
RECURSIVE split(_, _)
split(s, sep) ==
    LET i == find(s, << sep >>)
    IN  IF i = -1 THEN << s >>
        ELSE << Slice(s, 0, i) >> \o split(Slice(s, i + 1, Len(s)), sep)

\* the words of one block: its first section, then " " + each later section
BlockWords(block) ==
    LET sections == split(block, " ")
    IN  << sections[1] >>
        \o [i \in 1..(Len(sections) - 1) |-> << " " >> \o sections[i + 1]]

\* the words of all the blocks, in order
RECURSIVE Words(_)
Words(bl) == IF bl = << >> THEN << >> ELSE BlockWords(Head(bl)) \o Words(Tail(bl))

TooLong_Lenient(size, w) == size > w + 1

\* the test of both hyphenation steps: the counted size is over the width
TooLong(size, w) == size > w

Hyphenate_NoPlusOne(ls, size, w) ==
    LET size1 == size - w
        last == ls[Len(ls)]
    IN  [lines |-> Append([ls EXCEPT ![Len(ls)] = ButLastN(last, size1) \o << "-" >>],
                          LastN(last, size1)),
         size |-> size1]

\* one hyphenation step on the last line: the state [lines, size] after it
Hyphenate(ls, size, w) ==
    LET size1 == (size - w) + 1
        last == ls[Len(ls)]
        leftover == LastN(last, size1)
    IN  [lines |-> Append([ls EXCEPT ![Len(ls)] = ButLastN(last, size1) \o << "-" >>],
                          leftover),
         size |-> size1]

\* a word that is appended without being counted
IsMark(word) == startswith(word, OPEN)

\* the loop that places the words
RECURSIVE PlaceWords(_, _, _, _)
PlaceWords(ls, size, words, w) ==
    IF Len(words) = 0 THEN [lines |-> ls, size |-> size]
    ELSE IF TooLong(size, w)
    THEN LET h == Hyphenate(ls, size, w)
         IN  PlaceWords(h.lines, h.size, words, w)
    ELSE IF IsMark(words[1])
    THEN PlaceWords([ls EXCEPT ![Len(ls)] = @ \o words[1]], size, Tail(words), w)
    ELSE
        LET new_total == size + Len(words[1])
        IN  IF new_total > w
            THEN LET line == IF startswith(words[1], << " " >>)
                             THEN Slice(words[1], 1, Len(words[1]))
                             ELSE words[1]
                 IN  PlaceWords(Append(ls, line), Len(line), Tail(words), w)
            ELSE PlaceWords([ls EXCEPT ![Len(ls)] = @ \o words[1]], new_total,
                            Tail(words), w)

\* the loop that hyphenates the last line until it fits
RECURSIVE FitLastLine(_, _, _)
FitLastLine(ls, size, w) ==
    IF TooLong(size, w)
    THEN LET h == Hyphenate(ls, size, w) IN FitLastLine(h.lines, h.size, w)
    ELSE ls

\* the list without its empty entries
NonEmpty(ls) == SelectSeq(ls, LAMBDA l : l # << >>)

split_into_lines(s, w) ==
    IF w < 2 \/ s = None THEN << >>
    ELSE LET placed == PlaceWords(<< << >> >>, 0, Words(split_markers(s)), w)
         IN  NonEmpty(FitLastLine(placed.lines, placed.size, w))

(* The same function one loop iteration at a time.                         *)

Rejected_BelowOne(s, w) == w < 1 \/ s = None

\* width < 2 or string is None
Rejected(s, w) == w < 2 \/ s = None

AddToLast_Replace(ls, word) == [ls EXCEPT ![Len(ls)] = word]

\* lines[-1] = lines[-1] + words[0]
AddToLast(ls, word) == [ls EXCEPT ![Len(ls)] = @ \o word]

\* the line a word starts: the word without its leading space
StartLine(word) ==
    IF startswith(word, << " " >>) THEN Slice(word, 1, Len(word)) ELSE word

PlaceWord_Eager(ls, sz, word, w) ==
    LET new_total == sz + Len(word)
    IN  IF new_total >= w
        THEN [lines |-> Append(ls, StartLine(word)), size |-> Len(StartLine(word))]
        ELSE [lines |-> AddToLast(ls, word), size |-> new_total]

\* one iteration that places a counted word: the state [lines, size] after it
PlaceWord(ls, sz, word, w) ==
    LET new_total == sz + Len(word)
    IN  IF new_total > w
        THEN [lines |-> Append(ls, StartLine(word)), size |-> Len(StartLine(word))]
        ELSE [lines |-> AddToLast(ls, word), size |-> new_total]

-----------------------------------------------------------------------------
(* float: the values float(str) yields here and what str(float) prints.    *)
(*                                                                         *)
(* A float is [neg, m, e], the decimal (-1)^neg * m / 10^e.  The texts and *)
(* multipliers of the model keep to decimals of a few digits and to        *)
(* multipliers that are 0 or a power of two, for which the IEEE product is *)
(* the exact product and repr prints its shortest decimal form.  The forms *)
(* float() also accepts (exponents, inf, nan, underscores) need characters *)
(* the texts of the model do not hold.                                     *)

Digits == << "0", "1", "2", "3", "4", "5", "6", "7", "8", "9" >>

IsDigit(c) == \E d \in 1..10 : Digits[d] = c

DigitVal(c) == (CHOOSE d \in 1..10 : Digits[d] = c) - 1

RECURSIVE Pow10(_)
Pow10(n) == IF n = 0 THEN 1 ELSE 10 * Pow10(n - 1)

\* the number a str of digits denotes (0 for the empty str)
RECURSIVE DigitsVal(_)
DigitsVal(ds) ==
    IF ds = << >> THEN 0
    ELSE 10 * DigitsVal(SubSeq(ds, 1, Len(ds) - 1)) + DigitVal(ds[Len(ds)])

\* str(n) for an int n >= 0
RECURSIVE IntToStr(_)
IntToStr(n) ==
    IF n < 10 THEN << Digits[n + 1] >>
    ELSE IntToStr(n \div 10) \o << Digits[(n % 10) + 1] >>

Whitespace == { " ", "\t", "\n", "\r" }

\* s.strip()
RECURSIVE Strip(_)
Strip(s) ==
    IF s = << >> THEN s
    ELSE IF s[1] \in Whitespace THEN Strip(Tail(s))
    ELSE IF s[Len(s)] \in Whitespace THEN Strip(SubSeq(s, 1, Len(s) - 1))
    ELSE s

\* float(s): ok is FALSE where float raises ValueError
ParseFloat(s) ==
    LET t == Strip(s)
        signed == t # << >> /\ t[1] \in { "+", "-" }
        body == IF signed THEN Tail(t) ELSE t
        dot == find(body, << "." >>)
        ip == IF dot = -1 THEN body ELSE Slice(body, 0, dot)
        fp == IF dot = -1 THEN << >> ELSE Slice(body, dot + 1, Len(body))
        ok == /\ \A i \in 1..Len(ip) : IsDigit(ip[i])
              /\ \A i \in 1..Len(fp) : IsDigit(fp[i])
              /\ Len(ip) + Len(fp) > 0
    IN  IF ok
        THEN [ok |-> TRUE, neg |-> signed /\ t[1] = "-",
              m |-> DigitsVal(ip \o fp), e |-> Len(fp)]
        ELSE [ok |-> FALSE, neg |-> FALSE, m |-> 0, e |-> 0]

\* a float literal or parsed value
Float(neg, m, e) == [neg |-> neg, m |-> m, e |-> e]

\* None where a float is expected
NoneFloat == [none |-> TRUE]

\* a * b
FloatMul(a, b) == [neg |-> a.neg # b.neg, m |-> a.m * b.m, e |-> a.e + b.e]

\* the float without the trailing zeros of its fraction
RECURSIVE Normal(_)
Normal(v) ==
    IF v.e > 0 /\ v.m % 10 = 0
    THEN Normal([v EXCEPT !.m = v.m \div 10, !.e = v.e - 1])
    ELSE v

\* v == 1
IsOne(v) == LET n == Normal(v) IN ~n.neg /\ n.m = 1 /\ n.e = 0

\* ds with zeros before it, up to n characters
RECURSIVE ZeroPad(_, _)
ZeroPad(ds, n) == IF Len(ds) >= n THEN ds ELSE ZeroPad(<< "0" >> \o ds, n)

\* str(v), for v = 0 or 1e-4 <= |v| < 1e16
FloatToStr(v) ==
    LET n == Normal(v)
        ip == n.m \div Pow10(n.e)
        fp == n.m % Pow10(n.e)
    IN  (IF n.neg THEN << "-" >> ELSE << >>)
        \o IntToStr(ip) \o << "." >>
        \o (IF n.e = 0 THEN << "0" >> ELSE ZeroPad(IntToStr(fp), n.e))

-----------------------------------------------------------------------------
(* replace_speed_markers                                                   *)

Payload_Long(chunk) == Slice(chunk, 2, Len(chunk) - 1)

\* chunk[2:-2]
Payload(chunk) == ButLastN(Slice(chunk, 2, Len(chunk)), 2)

\* the loop over the chunks: `raised` when float * None raises TypeError
RECURSIVE ReplaceLoop(_, _, _)
ReplaceLoop(chunks, mult, acc) ==
    IF chunks = << >> THEN [raised |-> FALSE, value |-> acc]
    ELSE
        LET chunk == Head(chunks)
            parsed == ParseFloat(Payload(chunk))
        IN  IF startswith(chunk, OPEN) /\ parsed.ok
            THEN IF mult = NoneFloat THEN [raised |-> TRUE, value |-> acc]
                 ELSE ReplaceLoop(Tail(chunks), mult,
                        acc \o OPEN \o FloatToStr(FloatMul(parsed, mult)) \o CLOSE)
            ELSE ReplaceLoop(Tail(chunks), mult, acc \o chunk)

\* the call replace_speed_markers(s, mult): whether it raised, what it returned
replace_speed_markers_call(s, mult) ==
    IF mult # NoneFloat /\ IsOne(mult) THEN [raised |-> FALSE, value |-> s]
    ELSE ReplaceLoop(split_markers(s), mult, << >>)

replace_speed_markers(s, mult) == replace_speed_markers_call(s, mult).value

-----------------------------------------------------------------------------
(* format_story_text                                                       *)

\* None where a list of str is expected
NoneList == << << "<None>", "<list>" >> >>

\* None where a list of character entries is expected
NoneChars == << << "<None>", "<chars>" >> >>

QUOTE == << "\"" >>

\* the line "{{0}}"
RESET == OPEN \o << "0" >> \o CLOSE

\* a character entry [variable-name, name, color, text-speed]
Character(id, name, color, speed) == << id, name, color, speed >>

FindCharacter_Last(chs, cur_char) ==
    LET hits == { c \in 1..Len(chs) : chs[c][1] = cur_char }
    IN  IF hits = {} THEN 0 ELSE CHOOSE c \in hits : \A k \in hits : k <= c

\* the index of the first entry of chs whose variable name is cur_char, 0 when
\* the search leaves `character` None
FindCharacter(chs, cur_char) ==
    LET hits == { c \in 1..Len(chs) : chs[c][1] = cur_char }
    IN  IF hits = {} THEN 0 ELSE CHOOSE c \in hits : \A k \in hits : c <= k

\* final_text for the spoken text of a character
FinalText(character, spoken) ==
    RESET \o OPEN \o character[3] \o CLOSE
    \o character[2] \o << ":", " " >> \o OPEN \o << "d" >> \o CLOSE
    \o OPEN \o FloatToStr(character[4]) \o CLOSE
    \o replace_speed_markers(spoken, character[4])

\* the loop over the lines, and the end of an iteration that reaches the
\* comparison of cur_char with prev_char
RECURSIVE FormatLoop(_, _, _, _)
RECURSIVE AddLine(_, _, _, _, _, _)
AddLine(ls, chs, fmt, prev_char, cur_char, next_line) ==
    FormatLoop(ls, chs,
               (IF cur_char # prev_char THEN Append(fmt, RESET) ELSE fmt)
                   \o << next_line >>,
               cur_char)

FormatLoop(ls, chs, fmt, prev_char) ==
    IF ls = << >> THEN fmt
    ELSE
        LET line == Head(ls)
            rest == Tail(ls)
        IN  IF line = None \/ line = << >>
            THEN FormatLoop(rest, chs, fmt, prev_char)
            ELSE IF endswith(line, QUOTE)
            THEN IF startswith(line, QUOTE)
                 THEN AddLine(rest, chs, fmt, prev_char, << >>,
                              Slice(line, 1, Len(line) - 1))
                 ELSE
                    LET index == find(line, QUOTE)
                        cur_char == Slice(line, 0, index)
                        spoken == Slice(line, index + 1, Len(line) - 1)
                        c == FindCharacter(chs, cur_char)
                    IN  IF c = 0
                        THEN FormatLoop(rest, chs, Append(fmt, line), prev_char)
                        ELSE AddLine(rest, chs, fmt, prev_char, cur_char,
                                     FinalText(chs[c], spoken))
            ELSE AddLine(rest, chs, fmt, prev_char, << >>, line)

\* the list without the "{{0}}" lines at its beginning
RECURSIVE DropLeadingResets(_)
DropLeadingResets(fmt) ==
    IF Len(fmt) > 0 /\ fmt[1] = RESET THEN DropLeadingResets(Tail(fmt)) ELSE fmt

format_story_text(ls, chs) ==
    IF ls = NoneList \/ chs = NoneChars THEN << >>
    ELSE DropLeadingResets(FormatLoop(ls, chs, << >>, << >>))

-----------------------------------------------------------------------------
(* get_characters                                                          *)

ColorOk_AtMost(color) == Len(color) <= 1

\* len(info[2]) == 1
ColorOk(color) == Len(color) = 1

\* the value float(s) returns where it does not raise
FloatOf(s) == LET p == ParseFloat(s) IN Float(p.neg, p.m, p.e)

Entry_NameFirst(info) ==
    Character(info[2], info[1], info[3], FloatOf(info[4]))

\* the entry `character` built from the four sections of a line
Entry(info) == Character(info[1], info[2], info[3], FloatOf(info[4]))

\* the loop over the lines: the entries appended so far, and whether
\* line.split raised AttributeError on a None line
RECURSIVE CharacterLoop(_, _)
CharacterLoop(ls, acc) ==
    IF ls = << >> THEN [raised |-> FALSE, value |-> acc]
    ELSE IF Head(ls) = None THEN [raised |-> TRUE, value |-> acc]
    ELSE
        LET info == split(Head(ls), "|")
        IN  IF Len(info) # 4 THEN CharacterLoop(Tail(ls), acc)
            ELSE IF info[1] = << >> THEN CharacterLoop(Tail(ls), acc)
            ELSE IF info[2] = << >> THEN CharacterLoop(Tail(ls), acc)
            ELSE IF ~ColorOk(info[3]) THEN CharacterLoop(Tail(ls), acc)
            ELSE IF ~ParseFloat(info[4]).ok THEN CharacterLoop(Tail(ls), acc)
            ELSE CharacterLoop(Tail(ls), Append(acc, Entry(info)))

\* the call get_characters(ls): whether it raised, and what it returned
get_characters_call(ls) ==
    IF ls = NoneList THEN [raised |-> FALSE, value |-> << >>]
    ELSE LET r == CharacterLoop(ls, << >>)
         IN  IF r.raised THEN [raised |-> TRUE, value |-> << >>] ELSE r

get_characters(ls) == get_characters_call(ls).value

-----------------------------------------------------------------------------
(* get_link_options (its return value; what it prints is terminal output)  *)

LINK_OPEN == << "[", "[" >>
LINK_CLOSE == << "]", "]" >>

\* the loop over the lines: the interiors of the link lines, and whether
\* line.startswith raised AttributeError on a None line
RECURSIVE LinkInteriors(_, _)
LinkInteriors(ls, opts) ==
    IF ls = << >> THEN [raised |-> FALSE, value |-> opts]
    ELSE IF Head(ls) = None THEN [raised |-> TRUE, value |-> opts]
    ELSE IF startswith(Head(ls), LINK_OPEN) /\ endswith(Head(ls), LINK_CLOSE)
    THEN LinkInteriors(Tail(ls),
                       Append(opts, ButLastN(Slice(Head(ls), 2, Len(Head(ls))), 2)))
    ELSE LinkInteriors(Tail(ls), opts)

IsFullOption_AtLeast(parts) == Len(parts) >= 2

\* len(split) == 2
IsFullOption(parts) == Len(parts) = 2

\* the loop that splits the options
RECURSIVE FullOptions(_)
FullOptions(opts) ==
    IF opts = << >> THEN << >>
    ELSE LET parts == split(Head(opts), "|")
         IN  (IF IsFullOption(parts) THEN << parts >> ELSE << >>)
             \o FullOptions(Tail(opts))

\* the call get_link_options(ls, ...): whether it raised, what it returned
get_link_options_call(ls) ==
    IF ls = NoneList THEN [raised |-> FALSE, value |-> << >>]
    ELSE LET r == LinkInteriors(ls, << >>)
         IN  IF r.raised THEN [raised |-> TRUE, value |-> << >>]
             ELSE [raised |-> FALSE, value |-> FullOptions(r.value)]

get_link_options(ls) == get_link_options_call(ls).value

-----------------------------------------------------------------------------
(* get_decision_text                                                       *)

\* None where a list of options is expected
NoneOptions == << << << "<None>", "<options>" >> >> >>

GREEN == OPEN \o << "g" >> \o CLOSE
BLUE == OPEN \o << "b" >> \o CLOSE
DEFAULT == OPEN \o << "d" >> \o CLOSE

\* x in l, for a list l
In(x, l) == \E i \in 1..Len(l) : l[i] = x

OptionColor_ByName(option, visited) ==
    IF option = NoneList \/ Len(option) < 2 \/ visited = NoneList THEN BLUE
    ELSE IF In(option[2], visited) THEN GREEN ELSE BLUE

\* the color of one option: option[0] raises TypeError on None and IndexError
\* on an empty entry, `in` raises TypeError on None; both are caught
OptionColor(option, visited) ==
    IF option = NoneList \/ Len(option) < 1 \/ visited = NoneList THEN BLUE
    ELSE IF In(option[1], visited) THEN GREEN ELSE BLUE

\* the loop that sets the colors: one entry of `colors` for each option
Colors(opts, visited) == [i \in 1..Len(opts) |-> OptionColor(opts[i], visited)]

\* the loop that creates the text, at index i (0-based): options[i][1] raises
\* TypeError on None and IndexError on a short entry; both are caught and
\* skip the entry
RECURSIVE DecisionLoop(_, _, _, _, _)
DecisionLoop(opts, colors, i, link_num, txt) ==
    IF i >= Len(opts) THEN txt
    ELSE IF opts[i + 1] = NoneList \/ Len(opts[i + 1]) < 2
    THEN DecisionLoop(opts, colors, i + 1, link_num, txt)
    ELSE DecisionLoop(opts, colors, i + 1, link_num + 1,
            Append(txt, RESET \o IntToStr(link_num) \o << ")", " " >>
                        \o colors[i + 1] \o opts[i + 1][2] \o DEFAULT))

get_decision_text(opts, visited) ==
    IF opts = NoneOptions THEN << >>
    ELSE DecisionLoop(opts, Colors(opts, visited), 0, 1, << >>)

-----------------------------------------------------------------------------
(* Calls with absent arguments: what the functions above leave out.        *)

\* None where an int is expected, and an int that is present
NoneInt == [none |-> TRUE]
IntArg(n) == [none |-> FALSE, value |-> n]

\* `width < 2` raises TypeError when width is None
WidthRaises(w) == w.none

\* the call split_into_lines(s, w): whether it raised, what it returned
split_into_lines_call(s, w) ==
    IF WidthRaises(w) THEN [raised |-> TRUE, value |-> << >>]
    ELSE [raised |-> FALSE, value |-> split_into_lines(s, w.value)]

\* None where a character entry is expected
NoneEntry == << << "<None>" >>, << "<entry>" >>, << >> >>

\* the search for the character of a dialogue line reaches an absent entry
\* before an entry of its id: char[0] raises TypeError
SearchRaises(line, chs) ==
    /\ line # None
    /\ line # << >>
    /\ endswith(line, QUOTE)
    /\ ~startswith(line, QUOTE)
    /\ \E c \in 1..Len(chs) :
        /\ chs[c] = NoneEntry
        /\ \A k \in 1..(c - 1) : chs[k][1] # Slice(line, 0, find(line, QUOTE))

\* the call format_story_text(ls, chs): whether it raised, what it returned
format_story_text_call(ls, chs) ==
    IF ls = NoneList \/ chs = NoneChars THEN [raised |-> FALSE, value |-> << >>]
    ELSE IF \E i \in 1..Len(ls) : SearchRaises(ls[i], chs)
    THEN [raised |-> TRUE, value |-> << >>]
    ELSE [raised |-> FALSE, value |-> format_story_text(ls, chs)]

-----------------------------------------------------------------------------
(* print_by_char: whether it raises (what it prints is terminal output)    *)

\* the control character "\033", one character of a Python str
ESC == "<ESC>"

\* get_color(color): the ANSI escape sequence of a color character
get_color(color) ==
    << ESC, "[" >> \o
    (CASE color = "r" -> << "3", "1", "m" >>
       [] color = "g" -> << "3", "2", "m" >>
       [] color = "b" -> << "3", "4", "m" >>
       [] color = "c" -> << "3", "6", "m" >>
       [] color = "m" -> << "3", "5", "m" >>
       [] color = "y" -> << "9", "3", "m" >>
       [] OTHER -> << "0", "m" >>)

\* s.replace(old, new) for a non-empty old
RECURSIVE replace(_, _, _)
replace(s, old, new) ==
    IF s = << >> THEN << >>
    ELSE IF startswith(s, old)
    THEN new \o replace(Slice(s, Len(old), Len(s)), old, new)
    ELSE << Head(s) >> \o replace(Tail(s), old, new)

\* lines[0] + "\n" + lines[1] + ... for a non-empty list
RECURSIVE JoinNewLine(_)
JoinNewLine(ls) ==
    IF Len(ls) = 1 THEN ls[1]
    ELSE ls[1] \o << "\n" >> \o JoinNewLine(Tail(ls))

\* the color characters add_escapes replaces, in the order of the code
ColorChars == << "r", "g", "b", "c", "m", "y", "d" >>

\* escaped.replace("{{r}}", get_color("r")) and so on, from the i-th on
RECURSIVE ReplaceColors(_, _)
ReplaceColors(escaped, i) ==
    IF i > Len(ColorChars) THEN escaped
    ELSE ReplaceColors(replace(escaped, OPEN \o << ColorChars[i] >> \o CLOSE,
                               get_color(ColorChars[i])), i + 1)

\* add_escapes(s, w) with include_color and include_speed left True
add_escapes(s, w) ==
    LET ls == split_into_lines(s, w)
    IN  IF ls = << >> THEN << >> ELSE ReplaceColors(JoinNewLine(ls), 1)

\* the columns get_terminal_size() reports
TerminalWidth == 80

\* the timeout 0.02 between two characters
TICK == [neg |-> FALSE, m |-> 2, e |-> 2]

\* sleep(timeout) raises ValueError on a negative length
SleepRaises(timeout) == timeout.neg /\ timeout.m # 0

\* the loop over the blocks: TRUE when a sleep raises
RECURSIVE PrintLoop(_, _)
PrintLoop(bl, timeout) ==
    IF bl = << >> THEN FALSE
    ELSE IF startswith(Head(bl), OPEN)
    THEN LET f == ParseFloat(Payload(Head(bl)))
         IN  PrintLoop(Tail(bl),
                       IF f.ok THEN FloatMul([neg |-> f.neg, m |-> f.m, e |-> f.e], TICK)
                       ELSE TICK)
    ELSE IF Len(Head(bl)) > 0 /\ SleepRaises(timeout) THEN TRUE
    ELSE PrintLoop(Tail(bl), timeout)

\* print_by_char(s) ends in an uncaught exception
PrintRaises(s) ==
    LET r == split_markers_call(add_escapes(s, TerminalWidth))
    IN  r.raised \/ PrintLoop(r.blocks, TICK)

-----------------------------------------------------------------------------
(* get_file_by_name, get_next_story and load_story                         *)

\* a file of the list: [what read_file_as_lines reads at its path, its name]
StoryFile(contents, name) == << contents, name >>

\* the index of the first file of the list with the name, 0 if there is none
FirstNamed(fl, name) ==
    LET hits == { i \in 1..Len(fl) : fl[i][2] = name }
    IN  IF hits = {} THEN 0 ELSE CHOOSE i \in hits : \A j \in hits : i <= j

\* get_file_by_name(name, fl): no lines when no file has the name
get_file_by_name(name, fl) ==
    LET i == FirstNamed(fl, name)
    IN  IF i = 0 THEN << >> ELSE fl[i][1]

CHARACTERS == << "c", "h", "a", "r", "a", "c", "t", "e", "r", "s" >>
START == << "s", "t", "a", "r", "t" >>

\* the lines get_link_options prints: those that are not link lines
LinkText(ls) ==
    SelectSeq(ls, LAMBDA l : ~(startswith(l, LINK_OPEN) /\ endswith(l, LINK_CLOSE)))

\* int(s): ok is FALSE where int raises ValueError
IntOf(s) ==
    LET t == Strip(s)
        signed == t # << >> /\ t[1] \in { "+", "-" }
        body == IF signed THEN Tail(t) ELSE t
        ok == body # << >> /\ \A i \in 1..Len(body) : IsDigit(body[i])
    IN  IF ok
        THEN [ok |-> TRUE,
              value |-> IF signed /\ t[1] = "-" THEN 0 - DigitsVal(body)
                        ELSE DigitsVal(body)]
        ELSE [ok |-> FALSE, value |-> 0]

\* the index of options the input chooses, None (-1 here) when the input is
\* rejected and asked for again
Decision(inp, n) ==
    LET i == IntOf(inp)
    IN  IF i.ok /\ ~(i.value - 1 < 0 \/ i.value - 1 > n - 1) THEN i.value - 1
        ELSE -1

\* the path the directory argument names is a directory
isdir(path) == path = << "d" >>

-----------------------------------------------------------------------------
(* The texts the specifications draw.                                      *)

\* the concatenations of at most n pieces of P
TextsOver(P, n) == UNION { { Concat(ps) : ps \in [1..k -> P] } : k \in 0..n }

MarkerPieces == { OPEN, CLOSE, << "{" >>, << "}" >>, << " " >>, << "a" >> }

Widths == 2..MaxWidth

SpeedPieces ==
    { OPEN, CLOSE, << "1" >>, << "5" >>, << "." >>, << "-" >>, << "g" >>,
      << "{", "{", "2", "}", "}" >> }

\* 0, 0.5, 1, 2 and 4.0
Multipliers ==
    { Float(FALSE, 0, 0), Float(FALSE, 5, 1), Float(FALSE, 1, 0),
      Float(FALSE, 2, 0), Float(FALSE, 40, 1) }

\* the lists of at most n entries of S
ListsOver(S, n) == UNION { [1..k -> S] : k \in 0..n }

\* story lines: dialogue of j and of l (with a speed marker and a quote in
\* the spoken text), dialogue of n, quoted narration, a plain line, an empty
\* line, an absent line and a "{{0}}" line
StoryLines ==
    { << "j", "\"", "a", "\"" >>,
      << "l", "\"" >> \o OPEN \o << "2" >> \o CLOSE \o << "\"", "a", "\"" >>,
      << "n", "\"", "a", "\"" >>,
      << "\"", "a", "\"" >>,
      << "a" >>,
      << >>,
      None,
      RESET }

\* registries: none; j and l; j twice (and no l)
Registries ==
    { << >>,
      << Character(<< "j" >>, << "J" >>, << "b" >>, Float(FALSE, 10, 1)),
         Character(<< "l" >>, << "L" >>, << "g" >>, Float(FALSE, 2, 0)) >>,
      << Character(<< "j" >>, << "J" >>, << "b" >>, Float(FALSE, 5, 1)),
         Character(<< "j" >>, << "K" >>, << "g" >>, Float(FALSE, 2, 0)) >> }

\* fields of a line of the characters file: empty, one character, two
\* characters, and numbers (one of them one character long, one negative)
FieldTexts ==
    { << >>, << "j" >>, << "g", "b" >>, << "1" >>, << "-", "2" >>,
      << ".", "5" >> }

\* the fields joined with |
RECURSIVE JoinFields(_)
JoinFields(fs) ==
    IF Len(fs) = 1 THEN fs[1] ELSE fs[1] \o << "|" >> \o JoinFields(Tail(fs))

\* the lines put before or after the line under test: a valid line of id j
\* and a line of one field
FixedCharacterLines ==
    { << "j", "|", "J", "|", "b", "|", "1" >>, << "x" >> }

\* an absent list, the line t alone, or two lines of which one is t and the
\* other of FixedCharacterLines
CharacterLists(t) ==
    { NoneList, << t >> }
    \cup { << t, u >> : u \in FixedCharacterLines }
    \cup { << u, t >> : u \in FixedCharacterLines }

WrapPieces == { << "a" >>, << "b" >>, << " " >>, OPEN, CLOSE }

\* the widths of the step-by-step calls, with the widths below 2
WrapWidths == 0..MaxWidth

LinkPieces ==
    { LINK_OPEN, LINK_CLOSE, << "|" >>, << "a" >>, << "]" >>, << "b", "|", "a" >> }

\* the lines put before or after the line under test
FixedLinkLines == { LINK_OPEN \o << "a", "|", "b" >> \o LINK_CLOSE, << "a" >> }

\* an absent list, one line of T, or two lines of which one is of T and the
\* other of FixedLinkLines
LinkLists(T) ==
    { NoneList }
    \cup { << t >> : t \in T }
    \cup { << t, u >> : t \in T, u \in FixedLinkLines }
    \cup { << u, t >> : t \in T, u \in FixedLinkLines }

\* option entries: absent, empty, too short, [a, x], [b, y], [b, x, a]
OptionEntries ==
    { NoneList,
      << >>,
      << << "a" >> >>,
      << << "a" >>, << "x" >> >>,
      << << "b" >>, << "y" >> >>,
      << << "b" >>, << "x" >>, << "a" >> >> }

VisitedLists ==
    { NoneList,
      << >>,
      << << "a" >> >>,
      << << "x" >>, << "b" >> >>,
      << << "a", "a" >>, << "y" >> >> }

-----------------------------------------------------------------------------
(* SpecText: split_markers and split_into_lines on every text of at most   *)
(* MaxPieces pieces of MarkerPieces.                                       *)

Idle ==
    /\ pc = "start"
    /\ width = 0
    /\ multiplier = NoneFloat
    /\ raised = FALSE
    /\ blocks = << >>
    /\ wrapped = << >>
    /\ replaced = << >>
    /\ lines = << >>
    /\ chars = << >>
    /\ formatted = << >>
    /\ full_options = << >>
    /\ options = << >>
    /\ visited_links = << >>
    /\ text = << >>
    /\ characters = << >>
    /\ words_left = << >>
    /\ last_size = 0
    /\ directory = None
    /\ files = << >>
    /\ next_story = << >>
    /\ text_left = << >>
    /\ entered = << >>
    /\ result = ""

InitText ==
    /\ Idle
    /\ string \in TextsOver(MarkerPieces, MaxPieces)

CallSplitMarkers ==
    /\ pc = "start"
    /\ LET r == split_markers_call(string)
       IN  /\ raised' = r.raised
           /\ blocks' = r.blocks
    /\ pc' = "split_markers"
    /\ UNCHANGED << string, width, multiplier, wrapped, replaced, lines, chars,
                    formatted, full_options, options, visited_links, text,
                    characters, words_left, last_size,
                    directory, files, next_story, text_left, entered,
                    result >>

CallSplitIntoLines ==
    /\ pc = "start"
    /\ \E w \in Widths :
        /\ width' = w
        /\ wrapped' = split_into_lines(string, w)
    /\ pc' = "split_into_lines"
    /\ UNCHANGED << string, multiplier, raised, blocks, replaced, lines, chars,
                    formatted, full_options, options, visited_links, text,
                    characters, words_left, last_size,
                    directory, files, next_story, text_left, entered,
                    result >>

NextText == CallSplitMarkers \/ CallSplitIntoLines

SpecText == InitText /\ [][NextText]_vars
-----------------------------------------------------------------------------
(* SpecSpeed: replace_speed_markers on every text of at most               *)
(* MaxSpeedPieces pieces of SpeedPieces, for every multiplier.             *)

InitSpeed ==
    /\ Idle
    /\ string \in TextsOver(SpeedPieces, MaxSpeedPieces)

CallReplaceSpeedMarkers ==
    /\ pc = "start"
    /\ \E m \in Multipliers :
        /\ multiplier' = m
        /\ LET r == replace_speed_markers_call(string, m)
           IN  /\ raised' = r.raised
               /\ replaced' = r.value
    /\ pc' = "replace_speed_markers"
    /\ UNCHANGED << string, width, blocks, wrapped, lines, chars, formatted,
                    full_options, options, visited_links, text,
                    characters, words_left, last_size,
                    directory, files, next_story, text_left, entered,
                    result >>

NextSpeed == CallReplaceSpeedMarkers

SpecSpeed == InitSpeed /\ [][NextSpeed]_vars

-----------------------------------------------------------------------------
(* SpecStory: format_story_text on every list of at most MaxLines lines of *)
(* StoryLines and every registry of Registries.                            *)

InitStory ==
    /\ pc = "start"
    /\ string = << >>
    /\ width = 0
    /\ multiplier = NoneFloat
    /\ raised = FALSE
    /\ blocks = << >>
    /\ wrapped = << >>
    /\ replaced = << >>
    /\ lines \in ListsOver(StoryLines, MaxLines)
    /\ chars \in Registries
    /\ formatted = << >>
    /\ full_options = << >>
    /\ options = << >>
    /\ visited_links = << >>
    /\ text = << >>
    /\ characters = << >>
    /\ words_left = << >>
    /\ last_size = 0
    /\ directory = None
    /\ files = << >>
    /\ next_story = << >>
    /\ text_left = << >>
    /\ entered = << >>
    /\ result = ""

CallFormatStoryText ==
    /\ pc = "start"
    /\ formatted' = format_story_text(lines, chars)
    /\ pc' = "format_story_text"
    /\ UNCHANGED << string, width, multiplier, raised, blocks, wrapped, replaced,
                    lines, chars, full_options, options, visited_links, text,
                    characters, words_left, last_size,
                    directory, files, next_story, text_left, entered,
                    result >>

NextStory == CallFormatStoryText

SpecStory == InitStory /\ [][NextStory]_vars

-----------------------------------------------------------------------------
(* SpecLinks: get_link_options on every list of LinkLists over the lines   *)
(* of at most MaxLinkPieces pieces of LinkPieces.                          *)

InitLinks ==
    /\ pc = "start"
    /\ string = << >>
    /\ width = 0
    /\ multiplier = NoneFloat
    /\ raised = FALSE
    /\ blocks = << >>
    /\ wrapped = << >>
    /\ replaced = << >>
    /\ lines \in LinkLists(TextsOver(LinkPieces, MaxLinkPieces))
    /\ chars = << >>
    /\ formatted = << >>
    /\ full_options = << >>
    /\ options = << >>
    /\ visited_links = << >>
    /\ text = << >>
    /\ characters = << >>
    /\ words_left = << >>
    /\ last_size = 0
    /\ directory = None
    /\ files = << >>
    /\ next_story = << >>
    /\ text_left = << >>
    /\ entered = << >>
    /\ result = ""

CallGetLinkOptions ==
    /\ pc = "start"
    /\ LET r == get_link_options_call(lines)
       IN  /\ raised' = r.raised
           /\ full_options' = r.value
    /\ pc' = "get_link_options"
    /\ UNCHANGED << string, width, multiplier, blocks, wrapped, replaced, lines,
                    chars, formatted, options, visited_links, text,
                    characters, words_left, last_size,
                    directory, files, next_story, text_left, entered,
                    result >>

NextLinks == CallGetLinkOptions

SpecLinks == InitLinks /\ [][NextLinks]_vars

-----------------------------------------------------------------------------
(* SpecDecision: get_decision_text on absent options and every list of at  *)
(* most MaxOptions entries of OptionEntries, with every list of            *)
(* VisitedLists.                                                           *)

InitDecision ==
    /\ pc = "start"
    /\ string = << >>
    /\ width = 0
    /\ multiplier = NoneFloat
    /\ raised = FALSE
    /\ blocks = << >>
    /\ wrapped = << >>
    /\ replaced = << >>
    /\ lines = << >>
    /\ chars = << >>
    /\ formatted = << >>
    /\ full_options = << >>
    /\ options \in { NoneOptions } \cup ListsOver(OptionEntries, MaxOptions)
    /\ visited_links \in VisitedLists
    /\ text = << >>
    /\ characters = << >>
    /\ words_left = << >>
    /\ last_size = 0
    /\ directory = None
    /\ files = << >>
    /\ next_story = << >>
    /\ text_left = << >>
    /\ entered = << >>
    /\ result = ""

CallGetDecisionText ==
    /\ pc = "start"
    /\ text' = get_decision_text(options, visited_links)
    /\ pc' = "get_decision_text"
    /\ UNCHANGED << string, width, multiplier, raised, blocks, wrapped, replaced,
                    lines, chars, formatted, full_options, options,
                    visited_links,
                    characters, words_left, last_size,
                    directory, files, next_story, text_left, entered,
                    result >>

NextDecision == CallGetDecisionText

SpecDecision == InitDecision /\ [][NextDecision]_vars

-----------------------------------------------------------------------------
(* SpecWrap: split_into_lines one loop iteration at a time, on the absent  *)
(* text and every text of at most MaxWrapPieces pieces of WrapPieces.      *)
(* `wrapped` holds the local `lines` until the function returns.           *)

InitWrap ==
    /\ Idle
    /\ \/ string = None
       \/ \E k \in 0..MaxWrapPieces : \E ps \in [1..k -> WrapPieces] :
            string = Concat(ps)

\* lines 172-187: the check of the arguments, the words and the first line
WrapBegin ==
    /\ pc = "start"
    /\ \E w \in WrapWidths :
        /\ width' = w
        /\ IF Rejected(string, w)
           THEN /\ pc' = "split_into_lines"
                /\ UNCHANGED << wrapped, words_left, last_size,
                    directory, files, next_story, text_left, entered,
                    result >>
           ELSE /\ pc' = "place"
                /\ words_left' = Words(split_markers(string))
                /\ wrapped' = << << >> >>
                /\ last_size' = 0
    /\ UNCHANGED << string, multiplier, raised, blocks, replaced, lines, chars,
                    formatted, full_options, options, visited_links, text,
                    characters,
                    directory, files, next_story, text_left, entered,
                    result >>

\* lines 190-195: the last line is too long and is hyphenated
WrapHyphenate ==
    /\ pc = "place"
    /\ Len(words_left) > 0
    /\ TooLong(last_size, width)
    /\ LET h == Hyphenate(wrapped, last_size, width)
       IN  /\ wrapped' = h.lines
           /\ last_size' = h.size
    /\ UNCHANGED << pc, string, width, multiplier, raised, blocks, replaced, lines,
                    chars, formatted, full_options, options, visited_links,
                    text, characters, words_left,
                    directory, files, next_story, text_left, entered,
                    result >>

\* lines 197-200: a mark is added to the last line without being counted
WrapMark ==
    /\ pc = "place"
    /\ Len(words_left) > 0
    /\ ~TooLong(last_size, width)
    /\ IsMark(words_left[1])
    /\ wrapped' = AddToLast(wrapped, words_left[1])
    /\ words_left' = Tail(words_left)
    /\ UNCHANGED << pc, string, width, multiplier, raised, blocks, replaced, lines,
                    chars, formatted, full_options, options, visited_links,
                    text, characters, last_size,
                    directory, files, next_story, text_left, entered,
                    result >>

\* lines 202-213: a word is added to the last line or starts a new line
WrapWord ==
    /\ pc = "place"
    /\ Len(words_left) > 0
    /\ ~TooLong(last_size, width)
    /\ ~IsMark(words_left[1])
    /\ LET r == PlaceWord(wrapped, last_size, words_left[1], width)
       IN  /\ wrapped' = r.lines
           /\ last_size' = r.size
    /\ words_left' = Tail(words_left)
    /\ UNCHANGED << pc, string, width, multiplier, raised, blocks, replaced, lines,
                    chars, formatted, full_options, options, visited_links,
                    text, characters,
                    directory, files, next_story, text_left, entered,
                    result >>

\* line 188: no word is left and the first loop ends
WrapPlaced ==
    /\ pc = "place"
    /\ Len(words_left) = 0
    /\ pc' = "fit"
    /\ UNCHANGED << string, width, multiplier, raised, blocks, wrapped, replaced,
                    lines, chars, formatted, full_options, options,
                    visited_links, text, characters, words_left, last_size,
                    directory, files, next_story, text_left, entered,
                    result >>

\* lines 215-219: the last line is still too long and is hyphenated
WrapFit ==
    /\ pc = "fit"
    /\ TooLong(last_size, width)
    /\ LET h == Hyphenate(wrapped, last_size, width)
       IN  /\ wrapped' = h.lines
           /\ last_size' = h.size
    /\ UNCHANGED << pc, string, width, multiplier, raised, blocks, replaced, lines,
                    chars, formatted, full_options, options, visited_links,
                    text, characters, words_left,
                    directory, files, next_story, text_left, entered,
                    result >>

\* lines 220-228: the empty lines are removed and the lines returned
WrapReturn ==
    /\ pc = "fit"
    /\ ~TooLong(last_size, width)
    /\ wrapped' = NonEmpty(wrapped)
    /\ pc' = "split_into_lines"
    /\ UNCHANGED << string, width, multiplier, raised, blocks, replaced, lines,
                    chars, formatted, full_options, options, visited_links,
                    text, characters, words_left, last_size,
                    directory, files, next_story, text_left, entered,
                    result >>

NextWrap ==
    \/ WrapBegin
    \/ WrapHyphenate
    \/ WrapMark
    \/ WrapWord
    \/ WrapPlaced
    \/ WrapFit
    \/ WrapReturn

SpecWrap == InitWrap /\ [][NextWrap]_vars

\* the loops run as long as a step is enabled
SpecWrapFair == SpecWrap /\ WF_vars(NextWrap)

-----------------------------------------------------------------------------
(* SpecAbsent: every function called with an absent argument or with a     *)
(* list argument that holds an absent entry.                               *)

\* the list holds an absent entry
HasAbsent(l, none) == \E i \in 1..Len(l) : l[i] = none

\* a valid line and a line of one field of the characters file, a link and
\* a plain line of a story
SomeLines ==
    { << "j", "|", "J", "|", "b", "|", "1" >>, << "x" >>,
      LINK_OPEN \o << "a", "|", "b" >> \o LINK_CLOSE }

\* registries with an absent entry
AbsentRegistries ==
    LET j == Character(<< "j" >>, << "J" >>, << "b" >>, Float(FALSE, 2, 0))
    IN  { << NoneEntry >>, << j, NoneEntry >>, << NoneEntry, j >> }

InitAbsent == Idle /\ string = << >>

AbsentSplitMarkers ==
    /\ pc = "start"
    /\ string' = None
    /\ LET r == split_markers_call(None)
       IN  /\ raised' = r.raised
           /\ blocks' = r.blocks
    /\ pc' = "split_markers"
    /\ UNCHANGED << width, multiplier, wrapped, replaced, lines, chars, formatted,
                    full_options, options, visited_links, text, characters,
                    words_left, last_size,
                    directory, files, next_story, text_left, entered,
                    result >>

AbsentSplitIntoLines ==
    /\ pc = "start"
    /\ \E s \in { None } \cup TextsOver(MarkerPieces, MaxAbsent) :
       \E w \in { NoneInt } \cup { IntArg(n) : n \in 0..MaxWidth } :
        /\ s = None \/ w = NoneInt
        /\ string' = s
        /\ width' = w
        /\ LET r == split_into_lines_call(s, w)
           IN  /\ raised' = r.raised
               /\ wrapped' = r.value
    /\ pc' = "split_into_lines"
    /\ UNCHANGED << multiplier, blocks, replaced, lines, chars, formatted,
                    full_options, options, visited_links, text, characters,
                    words_left, last_size,
                    directory, files, next_story, text_left, entered,
                    result >>

AbsentReplaceSpeedMarkers ==
    /\ pc = "start"
    /\ \E s \in { None } \cup TextsOver(SpeedPieces, MaxAbsent) :
       \E m \in { NoneFloat } \cup Multipliers :
        /\ s = None \/ m = NoneFloat
        /\ string' = s
        /\ multiplier' = m
        /\ LET r == replace_speed_markers_call(s, m)
           IN  /\ raised' = r.raised
               /\ replaced' = r.value
    /\ pc' = "replace_speed_markers"
    /\ UNCHANGED << width, blocks, wrapped, lines, chars, formatted,
                    full_options, options, visited_links, text, characters,
                    words_left, last_size,
                    directory, files, next_story, text_left, entered,
                    result >>

AbsentGetCharacters ==
    /\ pc = "start"
    /\ \E ls \in { NoneList } \cup ListsOver({ None } \cup SomeLines, MaxAbsent) :
        /\ ls = NoneList \/ HasAbsent(ls, None)
        /\ lines' = ls
        /\ LET r == get_characters_call(ls)
           IN  /\ raised' = r.raised
               /\ characters' = r.value
    /\ pc' = "get_characters"
    /\ UNCHANGED << string, width, multiplier, blocks, wrapped, replaced, chars,
                    formatted, full_options, options, visited_links, text,
                    words_left, last_size,
                    directory, files, next_story, text_left, entered,
                    result >>

AbsentFormatStoryText ==
    /\ pc = "start"
    /\ \E ls \in { NoneList } \cup ListsOver(StoryLines, MaxAbsent) :
       \E chs \in { NoneChars } \cup Registries \cup AbsentRegistries :
        /\ \/ ls = NoneList
           \/ chs = NoneChars
           \/ HasAbsent(ls, None)
           \/ chs \in AbsentRegistries
        /\ lines' = ls
        /\ chars' = chs
        /\ LET r == format_story_text_call(ls, chs)
           IN  /\ raised' = r.raised
               /\ formatted' = r.value
    /\ pc' = "format_story_text"
    /\ UNCHANGED << string, width, multiplier, blocks, wrapped, replaced,
                    full_options, options, visited_links, text, characters,
                    words_left, last_size,
                    directory, files, next_story, text_left, entered,
                    result >>

AbsentGetLinkOptions ==
    /\ pc = "start"
    /\ \E ls \in { NoneList } \cup ListsOver({ None } \cup SomeLines, MaxAbsent) :
        /\ ls = NoneList \/ HasAbsent(ls, None)
        /\ lines' = ls
        /\ LET r == get_link_options_call(ls)
           IN  /\ raised' = r.raised
               /\ full_options' = r.value
    /\ pc' = "get_link_options"
    /\ UNCHANGED << string, width, multiplier, blocks, wrapped, replaced, chars,
                    formatted, options, visited_links, text, characters,
                    words_left, last_size,
                    directory, files, next_story, text_left, entered,
                    result >>

AbsentGetDecisionText ==
    /\ pc = "start"
    /\ \E opts \in { NoneOptions } \cup ListsOver(OptionEntries, MaxAbsent) :
       \E v \in VisitedLists \cup { << None >>, << << "a" >>, None >> } :
        /\ \/ opts = NoneOptions
           \/ v = NoneList
           \/ HasAbsent(opts, NoneList)
           \/ HasAbsent(v, None)
        /\ options' = opts
        /\ visited_links' = v
        /\ text' = get_decision_text(opts, v)
    /\ raised' = FALSE
    /\ pc' = "get_decision_text"
    /\ UNCHANGED << string, width, multiplier, blocks, wrapped, replaced, lines,
                    chars, formatted, full_options, characters, words_left,
                    last_size,
                    directory, files, next_story, text_left, entered,
                    result >>

NextAbsent ==
    \/ AbsentSplitMarkers
    \/ AbsentSplitIntoLines
    \/ AbsentReplaceSpeedMarkers
    \/ AbsentGetCharacters
    \/ AbsentFormatStoryText
    \/ AbsentGetLinkOptions
    \/ AbsentGetDecisionText

SpecAbsent == InitAbsent /\ [][NextAbsent]_vars

-----------------------------------------------------------------------------
(* SpecCharacters: get_characters on the absent list and on the lists of   *)
(* CharacterLists for every line of at most MaxFields fields.              *)

InitCharacters ==
    /\ pc = "start"
    /\ string = << >>
    /\ width = 0
    /\ multiplier = NoneFloat
    /\ raised = FALSE
    /\ blocks = << >>
    /\ wrapped = << >>
    /\ replaced = << >>
    /\ \E k \in 1..MaxFields : \E fs \in [1..k -> FieldTexts] :
            lines \in CharacterLists(JoinFields(fs))
    /\ chars = << >>
    /\ formatted = << >>
    /\ full_options = << >>
    /\ options = << >>
    /\ visited_links = << >>
    /\ text = << >>
    /\ characters = << >>
    /\ words_left = << >>
    /\ last_size = 0
    /\ directory = None
    /\ files = << >>
    /\ next_story = << >>
    /\ text_left = << >>
    /\ entered = << >>
    /\ result = ""

CallGetCharacters ==
    /\ pc = "start"
    /\ LET r == get_characters_call(lines)
       IN  /\ raised' = r.raised
           /\ characters' = r.value
    /\ pc' = "get_characters"
    /\ UNCHANGED << string, width, multiplier, blocks, wrapped, replaced, lines,
                    chars, formatted, full_options, options, visited_links,
                    text, words_left, last_size,
                    directory, files, next_story, text_left, entered,
                    result >>

NextCharacters == CallGetCharacters

SpecCharacters == InitCharacters /\ [][NextCharacters]_vars

-----------------------------------------------------------------------------
(* SpecLoad: load_story step by step on every directory of at most three   *)
(* files (characters, start, a), with every input the user can enter.      *)

\* the lines of the story files: links to a, to start and to the empty name,
\* a link of one part, narration, a line with a negative speed marker and a
\* dialogue line
WalkLines ==
    { LINK_OPEN \o << "a", "|", "x" >> \o LINK_CLOSE,
      LINK_OPEN \o START \o << "|", "y" >> \o LINK_CLOSE,
      LINK_OPEN \o << "|", "z" >> \o LINK_CLOSE,
      LINK_OPEN \o << "a" >> \o LINK_CLOSE,
      QUOTE \o << "h", "i" >> \o QUOTE,
      OPEN \o << "-", "1" >> \o CLOSE \o << "a" >>,
      << "j" >> \o QUOTE \o << "h", "i" >> \o QUOTE }

\* the characters files: no valid line, a character, a character with a
\* negative speed
CharacterFiles ==
    { << << "x" >> >>,
      << << "j", "|", "J", "|", "b", "|", "1" >> >>,
      << << "j", "|", "J", "|", "b", "|", "-", "2" >> >> }

\* what the user can enter
Inputs == { << >>, << "x" >>, << "0" >>, << "1" >>, << "2" >>, << "3" >> }

\* the file of the name, if the directory holds it
FilesOf(contents, name) ==
    IF contents = NoneList THEN << >> ELSE << StoryFile(contents, name) >>

InitLoad ==
    /\ pc = "load_story"
    /\ string = << >>
    /\ width = 0
    /\ multiplier = NoneFloat
    /\ raised = FALSE
    /\ blocks = << >>
    /\ wrapped = << >>
    /\ replaced = << >>
    /\ lines = << >>
    /\ chars = << >>
    /\ formatted = << >>
    /\ full_options = << >>
    /\ options = << >>
    /\ visited_links = << >>
    /\ text = << >>
    /\ characters = << >>
    /\ words_left = << >>
    /\ last_size = 0
    /\ directory \in { None, << "f" >>, << "d" >> }
    /\ IF isdir(directory)
       THEN \E c \in CharacterFiles \cup { NoneList } :
            \E st \in ListsOver(WalkLines, MaxStoryLines) \cup { NoneList } :
            \E a \in ListsOver(WalkLines, 1) \cup { NoneList } :
                files = FilesOf(a, << "a" >>) \o FilesOf(c, CHARACTERS)
                            \o FilesOf(st, START)
       ELSE files = << >>
    /\ next_story = << >>
    /\ text_left = << >>
    /\ entered = << >>
    /\ result = ""

\* load_story up to the loop: lines 606-619
LoadStory ==
    /\ pc = "load_story"
    /\ IF directory = None \/ ~isdir(directory)
       THEN /\ result' = "False"
            /\ pc' = "returned"
            /\ UNCHANGED << lines, characters, next_story >>
       ELSE /\ lines' = get_file_by_name(CHARACTERS, files)
            /\ characters' = get_characters(lines')
            /\ IF characters' = << >>
               THEN /\ result' = "False"
                    /\ pc' = "returned"
                    /\ UNCHANGED next_story
               ELSE /\ next_story' = START
                    /\ pc' = "loop"
                    /\ UNCHANGED result
    /\ UNCHANGED << string, width, multiplier, blocks, wrapped, replaced, chars,
                    options, visited_links, words_left, last_size, directory,
                    files, raised, formatted, full_options, text, text_left, entered >>

\* the loop test fails: lines 620, 624
WalkReturn ==
    /\ pc = "loop"
    /\ next_story = << >>
    /\ result' = "True"
    /\ pc' = "returned"
    /\ UNCHANGED << string, width, multiplier, blocks, wrapped, replaced, chars,
                    options, visited_links, words_left, last_size, directory,
                    files, raised, lines, characters, formatted, full_options, text, text_left, entered, next_story >>

\* the loop body reads the story and get_next_story formats it and takes its
\* options: lines 620-622, 567-569, 460-477
OpenStory ==
    /\ pc = "loop"
    /\ next_story # << >>
    /\ lines' = get_file_by_name(next_story, files)
    /\ formatted' = format_story_text(lines', characters)
    /\ full_options' = get_link_options(formatted')
    /\ text_left' = LinkText(formatted')
    /\ pc' = "print"
    /\ UNCHANGED << string, width, multiplier, blocks, wrapped, replaced, chars,
                    options, visited_links, words_left, last_size, directory,
                    files, raised, characters, text, entered, next_story, result >>

\* get_link_options waits for a key at a "{{0}}" line: lines 480-483
WaitForKeyPress ==
    /\ pc = "print"
    /\ text_left # << >>
    /\ Head(text_left) = RESET
    /\ \E inp \in Inputs : entered' = inp
    /\ text_left' = Tail(text_left)
    /\ UNCHANGED << string, width, multiplier, blocks, wrapped, replaced, chars,
                    options, visited_links, words_left, last_size, directory,
                    files, pc, raised, lines, characters, formatted, full_options, text, next_story, result >>

\* get_link_options prints a line: line 484
PrintLine ==
    /\ pc = "print"
    /\ text_left # << >>
    /\ Head(text_left) # RESET
    /\ IF PrintRaises(Head(text_left))
       THEN /\ raised' = TRUE
            /\ pc' = "raised"
            /\ UNCHANGED text_left
       ELSE /\ text_left' = Tail(text_left)
            /\ UNCHANGED << pc, raised >>
    /\ UNCHANGED << string, width, multiplier, blocks, wrapped, replaced, chars,
                    options, visited_links, words_left, last_size, directory,
                    files, lines, characters, formatted, full_options, text, entered, next_story, result >>

\* get_next_story finds no option and load_story takes its "": lines 577-578, 622
NoOption ==
    /\ pc = "print"
    /\ text_left = << >>
    /\ full_options = << >>
    /\ next_story' = << >>
    /\ pc' = "loop"
    /\ UNCHANGED << string, width, multiplier, blocks, wrapped, replaced, chars,
                    options, visited_links, words_left, last_size, directory,
                    files, raised, lines, characters, formatted, full_options, text, text_left, entered, result >>

\* get_next_story returns the only option: lines 580, 591-594, 622
OnlyOption ==
    /\ pc = "print"
    /\ text_left = << >>
    /\ Len(full_options) = 1
    /\ next_story' = full_options[1][1]
    /\ pc' = "loop"
    /\ UNCHANGED << string, width, multiplier, blocks, wrapped, replaced, chars,
                    options, visited_links, words_left, last_size, directory,
                    files, raised, lines, characters, formatted, full_options, text, text_left, entered, result >>

\* get_next_story prints the decision text: lines 571-575
ShowDecision ==
    /\ pc = "print"
    /\ text_left = << >>
    /\ Len(full_options) > 1
    /\ text' = get_decision_text(full_options, << >>)
    /\ IF \E i \in 1..Len(text') : PrintRaises(text'[i])
       THEN /\ raised' = TRUE
            /\ pc' = "raised"
       ELSE /\ pc' = "input"
            /\ UNCHANGED raised
    /\ UNCHANGED << string, width, multiplier, blocks, wrapped, replaced, chars,
                    options, visited_links, words_left, last_size, directory,
                    files, lines, characters, formatted, full_options, text_left, entered, next_story, result >>

\* one round of the while loop that asks for the decision, and the return of
\* the chosen option once the input is accepted: lines 581-590, 594, 622
Input ==
    /\ pc = "input"
    /\ \E inp \in Inputs :
        /\ entered' = inp
        /\ LET decision == Decision(inp, Len(full_options))
           IN  IF decision = -1
               THEN UNCHANGED << pc, next_story >>
               ELSE /\ next_story' = full_options[decision + 1][1]
                    /\ pc' = "loop"
    /\ UNCHANGED << string, width, multiplier, blocks, wrapped, replaced, chars,
                    options, visited_links, words_left, last_size, directory,
                    files, raised, lines, characters, formatted, full_options, text, text_left, result >>

NextLoad ==
    \/ LoadStory
    \/ WalkReturn
    \/ OpenStory
    \/ WaitForKeyPress
    \/ PrintLine
    \/ NoOption
    \/ OnlyOption
    \/ ShowDecision
    \/ Input

SpecLoad == InitLoad /\ [][NextLoad]_vars

-----------------------------------------------------------------------------
(* Claims about split_markers and split_into_lines (SpecText).             *)

\* the 0-based indices at which p occurs in s
Occurrences(s, p) ==
    { i \in 0..(Len(s) - Len(p)) : SubSeq(s, i + 1, i + Len(p)) = p }

\* s contains p
Contains(s, p) == Occurrences(s, p) # {}

\* the sum of the lengths of the strs of a list
RECURSIVE TotalLen(_)
TotalLen(ss) == IF ss = << >> THEN 0 ELSE Len(Head(ss)) + TotalLen(Tail(ss))

\* the marker tokens of a str: the tokens of split_markers that start with {{
MarkerTokens(s) == SelectSeq(split_markers(s), LAMBDA b : startswith(b, OPEN))

\* the length of a line once its marker tokens are removed
CountedLen(line) == Len(line) - TotalLen(MarkerTokens(line))

\* C1: the tokens split_markers returns, concatenated in order, are the input
\* string, for every string (incomplete markers, single braces and stray }}
\* included), and the call does not raise.
C1_RoundTrip ==
    pc = "split_markers" => (~raised /\ Concat(blocks) = string)

\* a text with a stray }} in its first plain token, a complete marker and an
\* incomplete last marker has been split
C1_Witness ==
    /\ pc = "split_markers"
    /\ Len(blocks) >= 3
    /\ ~startswith(blocks[1], OPEN) /\ Contains(blocks[1], CLOSE)
    /\ \E i \in 2..(Len(blocks) - 1) : startswith(blocks[i], OPEN)
    /\ startswith(blocks[Len(blocks)], OPEN)
    /\ ~Contains(blocks[Len(blocks)], CLOSE)

\* C2: for every text and every width >= 2, every line split_into_lines returns
\* has at most `width` characters once the marker tokens split_markers finds
\* on that line are removed.
C2_WidthInvariant ==
    pc = "split_into_lines" =>
        \A i \in 1..Len(wrapped) : CountedLen(wrapped[i]) <= width

\* a hyphenated line of exactly `width` counted characters is followed by a
\* line that holds a marker and counted characters
C2_Witness ==
    /\ pc = "split_into_lines"
    /\ \E i \in 1..(Len(wrapped) - 1) :
        /\ endswith(wrapped[i], << "-" >>)
        /\ CountedLen(wrapped[i]) = width
        /\ MarkerTokens(wrapped[i + 1]) # << >>
        /\ CountedLen(wrapped[i + 1]) > 0

\* C3: for every text and every width >= 2, each marker token of the text
\* appears whole inside one output line of split_into_lines.
C3_MarkersWhole ==
    pc = "split_into_lines" =>
        LET marks == MarkerTokens(string)
        IN  \A k \in 1..Len(marks) :
                \E i \in 1..Len(wrapped) : Contains(wrapped[i], marks[k])

\* C4: every token of split_markers is non-empty; a token that does not start
\* with {{ contains no {{ (a non-empty string without {{ gives exactly
\* [string]); a token that starts with {{ contains }} only as its last two
\* characters, except that the last token may start with {{ and contain no }};
\* the removal of the empty entries does not raise.
C4_TokenShape ==
    pc = "split_markers" =>
        /\ ~raised
        /\ \A i \in 1..Len(blocks) :
            /\ blocks[i] # << >>
            /\ ~startswith(blocks[i], OPEN) => ~Contains(blocks[i], OPEN)
            /\ startswith(blocks[i], OPEN) =>
                \/ Occurrences(blocks[i], CLOSE) = { Len(blocks[i]) - 2 }
                \/ i = Len(blocks) /\ ~Contains(blocks[i], CLOSE)
        /\ (string # << >> /\ ~Contains(string, OPEN)) => blocks = << string >>

\* a text without {{ that holds single braces and a }} came back as one token
C4_Witness ==
    /\ pc = "split_markers"
    /\ ~raised
    /\ blocks = << string >>
    /\ Contains(string, CLOSE)
    /\ Contains(string, << "{" >>)
-----------------------------------------------------------------------------
(* Claims about replace_speed_markers (SpecSpeed).                         *)

\* every {{ of s is closed by a later }}
AllClosed(s) ==
    \A i \in Occurrences(s, OPEN) : \E j \in Occurrences(s, CLOSE) : j >= i + 2

\* the text between the {{ and the }} of a complete marker token
MarkerText(token) == SubSeq(token, 3, Len(token) - 2)

\* what C5 expects of one token
Rescaled(token, m) ==
    IF startswith(token, OPEN) /\ ParseFloat(MarkerText(token)).ok
    THEN OPEN \o FloatToStr(FloatMul(ParseFloat(MarkerText(token)), m)) \o CLOSE
    ELSE token

\* C5: for a multiplier other than 1 and a text whose every {{ is closed,
\* replace_speed_markers returns the concatenation, over the tokens of
\* split_markers in order, of {{p*m}} (printed as a float) for each marker
\* token whose payload p is a number and of the token itself for the others.
C5_Rescale ==
    (pc = "replace_speed_markers" /\ ~IsOne(multiplier) /\ AllClosed(string)) =>
        LET tokens == split_markers(string)
        IN  /\ ~raised
            /\ replaced =
                Concat([i \in 1..Len(tokens) |-> Rescaled(tokens[i], multiplier)])

\* a text with a numeric marker, plain text and a marker that is no number
\* has been rescaled by a multiplier other than 1
C5_Witness ==
    /\ pc = "replace_speed_markers"
    /\ ~IsOne(multiplier)
    /\ AllClosed(string)
    /\ replaced # string
    /\ LET tokens == split_markers(string)
       IN  /\ \E i \in 1..Len(tokens) :
                startswith(tokens[i], OPEN) /\ ParseFloat(MarkerText(tokens[i])).ok
           /\ \E i \in 1..Len(tokens) :
                startswith(tokens[i], OPEN) /\ ~ParseFloat(MarkerText(tokens[i])).ok
           /\ \E i \in 1..Len(tokens) : ~startswith(tokens[i], OPEN)

\* the last token of a text is an incomplete marker: it starts with {{ and
\* has no closing }}
EndsIncomplete(t) ==
    LET tokens == split_markers(t)
    IN  /\ Len(tokens) > 0
        /\ startswith(tokens[Len(tokens)], OPEN)
        /\ ~Contains(tokens[Len(tokens)], CLOSE)

\* C17: for every multiplier, replace_speed_markers leaves an incomplete
\* marker (a trailing token that starts with {{ and has no closing }})
\* unchanged in its result, whatever the characters after the {{ are: the
\* result ends with that token.
C17_IncompleteUnchanged ==
    (pc = "replace_speed_markers" /\ EndsIncomplete(string)) =>
        LET tokens == split_markers(string)
        IN  endswith(replaced, tokens[Len(tokens)])

-----------------------------------------------------------------------------
(* Claims about format_story_text (SpecStory).                             *)

\* the 1-based position of the first double quote of a line that holds one
FirstQuote(line) ==
    CHOOSE q \in 1..Len(line) :
        line[q] = "\"" /\ \A k \in 1..(q - 1) : line[k] # "\""

\* a line of the form id"text": it ends with a double quote and does not
\* start with one
IsDialogue(line) ==
    /\ line # None
    /\ Len(line) >= 1
    /\ line[Len(line)] = "\""
    /\ line[1] # "\""

DialogueId(line) == SubSeq(line, 1, FirstQuote(line) - 1)

DialogueText(line) == SubSeq(line, FirstQuote(line) + 1, Len(line) - 1)

\* some record of the registry has this id
Registered(id, chs) == \E c \in 1..Len(chs) : chs[c][1] = id

\* the first record of the registry with this id
FirstRecord(id, chs) ==
    chs[CHOOSE c \in 1..Len(chs) :
            chs[c][1] = id /\ \A k \in 1..(c - 1) : chs[k][1] # id]

\* a dialogue line whose id is in the registry
IsSpoken(line, chs) == IsDialogue(line) /\ Registered(DialogueId(line), chs)

\* {{0}}{{color}}name: {{d}}{{speed}} and the rescaled text
SpokenLine(line, chs) ==
    LET rec == FirstRecord(DialogueId(line), chs)
    IN  OPEN \o << "0" >> \o CLOSE \o OPEN \o rec[3] \o CLOSE \o rec[2]
        \o << ":", " " >> \o OPEN \o << "d" >> \o CLOSE
        \o OPEN \o FloatToStr(rec[4]) \o CLOSE
        \o replace_speed_markers(DialogueText(line), rec[4])

\* C6: for a line id"text" whose id is the id of a registry record,
\* format_story_text emits the single line {{0}}{{color}}name: {{d}}{{speed}}
\* followed by replace_speed_markers(text, speed), with name, color and speed
\* of the first record with that id and text everything between the first
\* double quote and the final character: the line is in the output, and it is
\* the whole output when the input is that one line.
C6_SpokenLine ==
    pc = "format_story_text" =>
        \A i \in 1..Len(lines) :
            IsSpoken(lines[i], chars) =>
                /\ In(SpokenLine(lines[i], chars), formatted)
                /\ Len(lines) = 1 => formatted = << SpokenLine(lines[1], chars) >>

\* the one input line is dialogue of an id that two records share, with a
\* quote and a speed marker that is rescaled in its text
C6_Witness ==
    /\ pc = "format_story_text"
    /\ Len(lines) = 1
    /\ IsSpoken(lines[1], chars)
    /\ formatted = << SpokenLine(lines[1], chars) >>
    /\ \E c \in 1..Len(chars) : \E k \in 1..Len(chars) :
            c # k /\ chars[c][1] = chars[k][1] /\ chars[c][1] = DialogueId(lines[1])

\* speed markers in the text of a spoken line have been rescaled
C6_WitnessRescaled ==
    /\ pc = "format_story_text"
    /\ \E i \in 1..Len(lines) :
        /\ IsSpoken(lines[i], chars)
        /\ In(SpokenLine(lines[i], chars), formatted)
        /\ Contains(DialogueText(lines[i]), QUOTE)
        /\ replace_speed_markers(DialogueText(lines[i]),
                                 FirstRecord(DialogueId(lines[i]), chars)[4])
           # DialogueText(lines[i])

\* the speaker of a line: the id of a spoken line, none for any other line
Speaker(line, chs) == IF IsSpoken(line, chs) THEN DialogueId(line) ELSE << >>

\* the line emitted for an input line that is neither empty nor absent
EmittedLine(line, chs) ==
    IF IsSpoken(line, chs) THEN SpokenLine(line, chs)
    ELSE IF IsDialogue(line) THEN line
    ELSE IF line[Len(line)] = "\"" THEN SubSeq(line, 2, Len(line) - 1)
    ELSE line

\* the output C7 describes: the emitted lines, with a separator before each
\* one whose speaker differs from the speaker of the line emitted before it
RECURSIVE Separated(_, _, _, _)
Separated(ls, chs, first, prev) ==
    IF ls = << >> THEN << >>
    ELSE IF Head(ls) = None \/ Head(ls) = << >>
    THEN Separated(Tail(ls), chs, first, prev)
    ELSE (IF ~first /\ Speaker(Head(ls), chs) # prev THEN << RESET >> ELSE << >>)
         \o << EmittedLine(Head(ls), chs) >>
         \o Separated(Tail(ls), chs, FALSE, Speaker(Head(ls), chs))

\* no input line is itself the separator line
NoResetLine(ls) == \A i \in 1..Len(ls) : ls[i] # RESET

\* C7: format_story_text inserts a separator line {{0}} immediately before an
\* emitted line exactly when the speaker of that line differs from the speaker
\* of the previously emitted line, and none before the first emitted line
\* (stated for inputs that hold no {{0}} line of their own).
C7_Separators ==
    (pc = "format_story_text" /\ NoResetLine(lines)) =>
        formatted = Separated(lines, chars, TRUE, << >>)

\* every input line is a dialogue line whose id is in the registry
AllSpoken(ls, chs) == \A i \in 1..Len(ls) : IsSpoken(ls[i], chs)

\* C8: when every input line is a dialogue line whose id is in the registry,
\* format_story_text returns one output line per input line, output[i] being
\* the formatted form of input[i], also when consecutive speakers differ.
C8_OneLinePerLine ==
    (pc = "format_story_text" /\ AllSpoken(lines, chars)) =>
        /\ Len(formatted) = Len(lines)
        /\ \A i \in 1..Len(lines) : formatted[i] = SpokenLine(lines[i], chars)

\* a line format_story_text does not interpret: a non-empty line that does
\* not end with a double quote, or a dialogue line whose id is not in the
\* registry
Uninterpreted(line, chs) ==
    /\ line # None
    /\ Len(line) > 0
    /\ \/ line[Len(line)] # "\""
       \/ IsDialogue(line) /\ ~Registered(DialogueId(line), chs)

\* a is b with some entries left out
RECURSIVE IsSubsequence(_, _)
IsSubsequence(a, b) ==
    IF a = << >> THEN TRUE
    ELSE IF b = << >> THEN FALSE
    ELSE IF Head(a) = Head(b) THEN IsSubsequence(Tail(a), Tail(b))
    ELSE IsSubsequence(a, Tail(b))

\* the lines of a list that are neither empty nor absent
Present(ls) == SelectSeq(ls, LAMBDA l : l # None /\ l # << >>)

\* C18: format_story_text passes lines it does not interpret through
\* unchanged: every non-empty input line that does not end with a double
\* quote, and every dialogue line whose id is not in the registry, appears
\* unchanged in the output, in the input order; empty and absent lines
\* produce no output line (the output holds, besides separators, at most one
\* line per line that is neither empty nor absent).
C18_PassThrough ==
    pc = "format_story_text" =>
        /\ IsSubsequence(SelectSeq(lines, LAMBDA l : Uninterpreted(l, chars)),
                         formatted)
        /\ Len(SelectSeq(formatted, LAMBDA l : l # RESET)) <= Len(Present(lines))

-----------------------------------------------------------------------------
(* Claims about get_link_options (SpecLinks).                              *)

\* a line that starts with [[ and ends with ]]
IsDirective(line) ==
    /\ Len(line) >= 2
    /\ SubSeq(line, 1, 2) = LINK_OPEN
    /\ SubSeq(line, Len(line) - 1, Len(line)) = LINK_CLOSE

\* what is between the [[ and the ]] of a directive
Interior(line) == SubSeq(line, 3, Len(line) - 2)

\* the 1-based positions of the | of a str
Bars(t) == { k \in 1..Len(t) : t[k] = "|" }

\* a directive whose interior holds exactly one |
IsLink(line) == IsDirective(line) /\ Cardinality(Bars(Interior(line))) = 1

\* the pair [target, label] of such a directive
LinkPair(line) ==
    LET t == Interior(line)
        bar == CHOOSE k \in Bars(t) : TRUE
    IN  << SubSeq(t, 1, bar - 1), SubSeq(t, bar + 1, Len(t)) >>

\* the pairs of the lines of a list that are links, in the order of the list
RECURSIVE LinkPairs(_)
LinkPairs(ls) ==
    IF ls = << >> THEN << >>
    ELSE (IF IsLink(Head(ls)) THEN << LinkPair(Head(ls)) >> ELSE << >>)
         \o LinkPairs(Tail(ls))

\* C9: get_link_options returns, in input order, exactly the pairs
\* [target, label] of the lines that start with [[, end with ]] and whose
\* interior holds exactly one |; other lines and directives with no | or
\* more than one contribute nothing; an absent list gives an empty result.
C9_LinkOptions ==
    pc = "get_link_options" =>
        /\ ~raised
        /\ full_options = IF lines = NoneList THEN << >> ELSE LinkPairs(lines)

\* two different links came back in the order of their lines
C9_Witness ==
    /\ pc = "get_link_options"
    /\ lines # NoneList
    /\ Len(lines) = 2
    /\ Len(full_options) = 2
    /\ full_options[1] # full_options[2]

\* a directive with two | and a directive with none were discarded
C9_WitnessDiscarded ==
    /\ pc = "get_link_options"
    /\ lines # NoneList
    /\ full_options = << >>
    /\ \E i \in 1..Len(lines) :
        IsDirective(lines[i]) /\ Cardinality(Bars(Interior(lines[i]))) >= 2

-----------------------------------------------------------------------------
(* Claims about get_decision_text (SpecDecision).                          *)

\* an option with a target and a label
HasLabel(option) == option # NoneList /\ Len(option) >= 2

\* the options with a target and a label, in order
Emitted(opts) == SelectSeq(opts, HasLabel)

\* the color C10 gives an option
ExpectedColor(option, visited) ==
    IF visited # NoneList /\ \E v \in 1..Len(visited) : visited[v] = option[1]
    THEN OPEN \o << "g" >> \o CLOSE
    ELSE OPEN \o << "b" >> \o CLOSE

\* C10: get_decision_text returns one line per option that has a target and a
\* label, in option order; the k-th line is {{0}} k ") " C label {{d}}, k
\* counting from 1 over the emitted lines only, C being {{g}} when the target
\* is an element of visited and {{b}} otherwise (always {{b}} when visited is
\* absent); absent options give an empty result.
C10_DecisionText ==
    pc = "get_decision_text" =>
        IF options = NoneOptions THEN text = << >>
        ELSE LET em == Emitted(options)
             IN  /\ Len(text) = Len(em)
                 /\ \A k \in 1..Len(em) :
                        text[k] = OPEN \o << "0" >> \o CLOSE \o IntToStr(k)
                                  \o << ")", " " >>
                                  \o ExpectedColor(em[k], visited_links)
                                  \o em[k][2] \o OPEN \o << "d" >> \o CLOSE

\* an entry without a label stands before an emitted option, and the output
\* holds a green and a blue line
C10_Witness ==
    /\ pc = "get_decision_text"
    /\ options # NoneOptions
    /\ Len(options) >= 3
    /\ ~HasLabel(options[1])
    /\ Len(text) = 2
    /\ Contains(text[1], GREEN)
    /\ Contains(text[2], BLUE)

-----------------------------------------------------------------------------
(* Claims about get_characters (SpecCharacters).                           *)

\* the k-th | of a line, counted from 1
BarAt(line, k) ==
    CHOOSE b \in Bars(line) : Cardinality({ x \in Bars(line) : x < b }) = k - 1

\* the fields of a line: what stands before, between and after its |
FieldsOf(line) ==
    LET n == Cardinality(Bars(line))
    IN  [k \in 1..(n + 1) |->
            SubSeq(line,
                   IF k = 1 THEN 1 ELSE BarAt(line, k - 1) + 1,
                   IF k = n + 1 THEN Len(line) ELSE BarAt(line, k) - 1)]

\* a line of exactly 4 fields with a non-empty id, a non-empty name, a
\* color of length 1 and a speed that parses as a number
IsCharacterLine(line) ==
    LET f == FieldsOf(line)
    IN  /\ Len(f) = 4
        /\ Len(f[1]) > 0
        /\ Len(f[2]) > 0
        /\ Len(f[3]) = 1
        /\ ParseFloat(f[4]).ok

\* the record [id, name, color, speed] of such a line
RecordOf(line) ==
    LET f == FieldsOf(line)
        p == ParseFloat(f[4])
    IN  << f[1], f[2], f[3], [neg |-> p.neg, m |-> p.m, e |-> p.e] >>

\* the records of the lines of a list that are character lines, in order
RECURSIVE RecordsOf(_)
RecordsOf(ls) ==
    IF ls = << >> THEN << >>
    ELSE (IF IsCharacterLine(Head(ls)) THEN << RecordOf(Head(ls)) >> ELSE << >>)
         \o RecordsOf(Tail(ls))

\* C11: get_characters returns, in input order, exactly one record
\* [id, name, color, speed] for each line that splits on | into exactly 4
\* fields with non-empty id, non-empty name, a color field of length exactly
\* 1 and a speed field that parses as a number; every other line is skipped
\* and produces no record and no error.
C11_Characters ==
    pc = "get_characters" =>
        /\ ~raised
        /\ characters = IF lines = NoneList THEN << >> ELSE RecordsOf(lines)

\* two character lines gave two different records in the order of the lines
C11_Witness ==
    /\ pc = "get_characters"
    /\ lines # NoneList
    /\ Len(lines) = 2
    /\ Len(characters) = 2
    /\ characters[1] # characters[2]
    /\ characters[2][1] = << "j" >> /\ characters[2][2] = << "J" >>

\* a line of 4 fields whose color field has two characters gave no record
C11_WitnessSkipped ==
    /\ pc = "get_characters"
    /\ lines # NoneList
    /\ characters = << >>
    /\ \E i \in 1..Len(lines) :
        LET f == FieldsOf(lines[i])
        IN  Len(f) = 4 /\ Len(f[1]) > 0 /\ Len(f[2]) > 0 /\ Len(f[3]) = 2
            /\ ParseFloat(f[4]).ok

\* no two entries of a list of records have the same id
UniqueById(recs) ==
    \A a \in 1..Len(recs) : \A b \in 1..Len(recs) :
        a # b => recs[a][1] # recs[b][1]

\* C12 (as stated): for every list of input lines, no two records of the
\* result of get_characters have the same id.
C12_UniqueById ==
    pc = "get_characters" => UniqueById(characters)

\* the ids of the character lines of a list, in order
CharacterLineIds(ls) ==
    LET valid == SelectSeq(ls, IsCharacterLine)
    IN  [i \in 1..Len(valid) |-> << FieldsOf(valid[i])[1] >>]

\* C12 (amended): get_characters does not merge records, so no two records
\* of its result have the same id if and only if no two character lines of
\* the input have the same id.
C12_UniqueWhenLinesAre ==
    (pc = "get_characters" /\ lines # NoneList) =>
        (UniqueById(characters) <=> UniqueById(CharacterLineIds(lines)))

\* two character lines of different ids gave two records of different ids
C12_Witness ==
    /\ pc = "get_characters"
    /\ lines # NoneList
    /\ Len(lines) = 2
    /\ IsCharacterLine(lines[1]) /\ IsCharacterLine(lines[2])
    /\ Len(characters) = 2
    /\ characters[1][1] # characters[2][1]

\* a float below zero
IsNegative(v) == v.neg /\ v.m > 0

\* C13: every record returned by get_characters has a non-negative
\* speed_multiplier: a line whose speed field is a negative number never
\* produces a record.
C13_NonNegativeSpeed ==
    pc = "get_characters" =>
        \A c \in 1..Len(characters) : ~IsNegative(characters[c][4])

-----------------------------------------------------------------------------
(* Claims about the loops of split_into_lines (SpecWrap).                  *)

\* a step of either hyphenation loop
HyphenationStep == WrapHyphenate \/ WrapFit

\* the last line of the lines built so far
LastLine(ls) == ls[Len(ls)]

\* C14: for every width >= 2, a word longer than width is hyphenated across
\* as many lines as needed: every hyphenation step leaves the earlier lines
\* alone and turns the over-long last line (a word alone on its line, all of
\* whose characters are counted) into a line of exactly `width` characters,
\* the last an appended "-" and the first width-1 the next characters of the
\* word, followed by a new last line that holds the rest of the word, so no
\* character is dropped or replaced; words are placed and the result is
\* returned only once the rest of the word has at most `width` characters.
C14_Hyphenation ==
    [][ /\ HyphenationStep =>
            LET n == Len(wrapped)
            IN  /\ Len(wrapped') = n + 1
                /\ \A i \in 1..(n - 1) : wrapped'[i] = wrapped[i]
                /\ Len(wrapped'[n]) = width
                /\ wrapped'[n][width] = "-"
                /\ SubSeq(wrapped'[n], 1, width - 1) \o wrapped'[n + 1]
                   = wrapped[n]
                /\ last_size' = Len(wrapped'[n + 1])
        /\ (WrapMark \/ WrapWord \/ WrapReturn) => last_size <= width
      ]_vars

\* a word has been hyphenated twice: two lines that end with "-" and start
\* with different letters are followed by the rest of the word, which fits
C14_Witness ==
    /\ pc \in { "place", "fit" }
    /\ Len(wrapped) >= 3
    /\ LET n == Len(wrapped)
       IN  /\ endswith(wrapped[n - 2], << "-" >>)
           /\ endswith(wrapped[n - 1], << "-" >>)
           /\ wrapped[n - 2][1] # wrapped[n - 1][1]
           /\ Len(wrapped[n]) = last_size
           /\ last_size > 0 /\ last_size <= width

\* the str without the characters of a set
Without(t, cs) == SelectSeq(t, LAMBDA c : c \notin cs)

\* C15: split_into_lines loses, duplicates and reorders nothing but spaces:
\* for every text that contains no "-" and every width >= 2, the output lines
\* concatenated in order, with every space and every "-" deleted, are the
\* text with every space deleted.
C15_NothingLost ==
    (pc = "split_into_lines" /\ width >= 2 /\ string # None
        /\ ~Contains(string, << "-" >>)) =>
        Without(Concat(wrapped), { " ", "-" }) = Without(string, { " " })

\* a text with a marker between two words came back on several lines, one of
\* them hyphenated
C15_Witness ==
    /\ pc = "split_into_lines"
    /\ width >= 2
    /\ string # None
    /\ Len(wrapped) >= 3
    /\ \E i \in 1..Len(wrapped) : endswith(wrapped[i], << "-" >>)
    /\ \E i \in 1..Len(wrapped) : Contains(wrapped[i], OPEN)
    /\ Contains(string, << " " >>)
    /\ Without(string, { " " }) # string

\* a text of non-empty words separated by single spaces
SingleSpaced(t) ==
    /\ Len(t) > 0
    /\ t[1] # " "
    /\ t[Len(t)] # " "
    /\ \A i \in 1..(Len(t) - 1) : ~(t[i] = " " /\ t[i + 1] = " ")

\* the lengths of the words of such a text
WordLengths(t) ==
    { j - i + 1 : i \in 1..Len(t), j \in 1..Len(t) } \cap
    { k \in 1..Len(t) :
        \E i \in 1..(Len(t) - k + 1) :
            /\ \A x \in i..(i + k - 1) : t[x] # " "
            /\ i = 1 \/ t[i - 1] = " "
            /\ i + k - 1 = Len(t) \/ t[i + k] = " " }

\* the length of the first word of a line
FirstWordLen(line) ==
    CHOOSE k \in 0..Len(line) :
        /\ \A x \in 1..k : line[x] # " "
        /\ k = Len(line) \/ line[k + 1] = " "

\* the lines joined with single spaces
RECURSIVE JoinLines(_)
JoinLines(ls) ==
    IF ls = << >> THEN << >>
    ELSE IF Len(ls) = 1 THEN ls[1]
    ELSE ls[1] \o << " " >> \o JoinLines(Tail(ls))

\* what C19 is about: marker-free text of non-empty words, separated by
\* single spaces, each no longer than the width
Packable(t, w) ==
    /\ t # None
    /\ w >= 2
    /\ ~Contains(t, OPEN)
    /\ SingleSpaced(t)
    /\ \A k \in WordLengths(t) : k <= w

\* C19: split_into_lines packs greedily: for marker-free text whose words
\* are non-empty, separated by single spaces and each no longer than width,
\* every output line L other than the last satisfies
\* len(L) + 1 + len(first word of the next line) > width, and joining the
\* output lines with a single space reproduces the text.
C19_Greedy ==
    (pc = "split_into_lines" /\ Packable(string, width)) =>
        /\ \A i \in 1..(Len(wrapped) - 1) :
                Len(wrapped[i]) + 1 + FirstWordLen(wrapped[i + 1]) > width
        /\ JoinLines(wrapped) = string

\* a text of three words came back on two lines, two words on the first
C19_Witness ==
    /\ pc = "split_into_lines"
    /\ Packable(string, width)
    /\ Len(wrapped) = 2
    /\ Contains(wrapped[1], << " " >>)
    /\ Len(wrapped[1]) = width

\* C20: for every text and every width >= 2, split_into_lines terminates:
\* each hyphenation step strictly decreases the counted length of the
\* over-long last line (and takes no word), every other loop step consumes
\* one word, the final hyphenation loop ends with the last line at most
\* `width` long, and the function returns; widths below 2 are rejected with
\* an empty result before the loop is entered.
C20_Terminates ==
    /\ [][
            /\ HyphenationStep =>
                /\ last_size' < last_size
                /\ Len(LastLine(wrapped')) < Len(LastLine(wrapped))
                /\ last_size' >= 1
                /\ words_left' = words_left
            /\ (WrapMark \/ WrapWord) => Len(words_left') = Len(words_left) - 1
            /\ WrapReturn =>
                /\ last_size <= width
                /\ CountedLen(LastLine(wrapped)) <= width
            /\ (WrapBegin /\ width' < 2) =>
                (pc' = "split_into_lines" /\ wrapped' = << >>)
            /\ (WrapBegin /\ width' >= 2 /\ string # None) => pc' = "place"
       ]_vars
    /\ <>(pc = "split_into_lines")

\* a call of width >= 2 has returned four lines or more, two of them
\* hyphenated
C20_Witness ==
    /\ pc = "split_into_lines"
    /\ width >= 2
    /\ Len(wrapped) >= 4
    /\ Cardinality({ i \in 1..Len(wrapped) : endswith(wrapped[i], << "-" >>) }) >= 2

-----------------------------------------------------------------------------
(* Claims about absent arguments (SpecAbsent).                             *)

\* C16: no core operation raises on absent input: each of split_markers,
\* split_into_lines, replace_speed_markers, get_characters,
\* format_story_text, get_link_options and get_decision_text returns its
\* empty or neutral result, and never raises, when any of its arguments is
\* absent, including the width, the multiplier, the visited list and absent
\* entries inside a list argument.
C16_NoRaise ==
    /\ pc # "start" => ~raised
    /\ pc = "split_markers" => blocks = << >>
    /\ pc = "split_into_lines" => wrapped = << >>
    /\ (pc = "replace_speed_markers" /\ string = None) =>
            replaced \in { << >>, None }
    /\ (pc = "replace_speed_markers" /\ string # None) => replaced = string
    /\ (pc = "get_characters" /\ lines = NoneList) => characters = << >>
    /\ (pc = "format_story_text" /\ (lines = NoneList \/ chars = NoneChars)) =>
            formatted = << >>
    /\ (pc = "get_link_options" /\ lines = NoneList) => full_options = << >>
    /\ (pc = "get_decision_text" /\ options = NoneOptions) => text = << >>


-----------------------------------------------------------------------------
(* Claims about load_story (SpecLoad).                                     *)

\* the walk takes up its first story
Starts == pc = "load_story" /\ pc' = "loop"

\* get_next_story returns the target of an option
Continues == pc \in { "print", "input" } /\ pc' = "loop" /\ full_options # << >>

\* the option the walk follows: the only one, or the one whose number in
\* 1..n was entered
Chosen(k) ==
    /\ k \in 1..Len(full_options)
    /\ Len(full_options) = 1 => k = 1
    /\ Len(full_options) > 1 => IntOf(entered').ok /\ IntOf(entered').value = k

\* the current story has been shown and yields no link option
Exhausted == pc = "print" /\ text_left = << >> /\ full_options = << >>

\* the walk ends, by a return or by an exception
Stops == pc \notin { "load_story", "returned", "raised" }
            /\ pc' \in { "returned", "raised" }

\* C21: the walk of load_story starts at the story named start; after each
\* story it continues with the target of the chosen option (the only option,
\* or the option whose number in 1..n the user entered); it stops, returning
\* True, exactly when the current story yields no link option, and it never
\* stops while the current story offers a link option.
C21_Walk ==
    [][
        /\ Starts => next_story' = START
        /\ Continues =>
             \E k \in 1..Len(full_options) :
                Chosen(k) /\ next_story' = full_options[k][1]
        /\ Exhausted => pc' = "loop" /\ next_story' = << >>
        /\ (pc = "loop" /\ full_options = << >> /\ next_story = << >>) =>
             result' = "True"
        /\ Stops => result' = "True" /\ ~raised' /\ full_options = << >>
    ]_vars

=============================================================================
